---- MODULE Spec2Model ----
(***************************************************************************)
(* HashSetCoarseGrained<T> (src/src/hash_set_coarse_grained.h): a bucketed *)
(* hash set whose Add, Remove and Contains run under one std::mutex, and   *)
(* whose Size reads an atomic counter without the mutex.                   *)
(*                                                                         *)
(* The element type is int: std::hash<int> is the identity in libstdc++    *)
(* and libc++.  Buckets are sequences, in the order push_back built them.  *)
(* TLA+ sequences are indexed from 1, so the C++ bucket index i is the     *)
(* TLA+ index i + 1.                                                       *)
(*                                                                         *)
(* Every thread runs one call at a time; pc[t] is the statement it is      *)
(* about to execute.  One action is one statement of the source.           *)
(***************************************************************************)
EXTENDS Integers, Sequences, FiniteSets

\* ------------------------------------------------------------- bounds
NThreads == 2
MaxElem == 4
MaxInitCap == 2
MaxFail == 1

Threads == 1..NThreads
Elems == 0..MaxElem
InitCaps == 1..MaxInitCap

\* const size_t bucket_capacity_ = 4;
bucket_capacity_ == 4

VARIABLES
  table_,      \* std::vector<std::vector<T>> table_
  set_size_,   \* std::atomic<size_t> set_size_
  mutex_,      \* std::mutex mutex_: 0 when free, else the owning thread
  pc,          \* per thread: the statement it executes next
  op,          \* per thread: the call in progress
  elem,        \* per thread: the argument elem of the call
  ret,         \* per thread: the bool the call returns
  size_ret,    \* per thread: the value Size() loaded
  new_table,   \* per thread: Resize's local new_table
  bi,          \* per thread: Resize's outer loop position (bucket)
  ei,          \* per thread: Resize's inner loop position (element)
  pre,         \* history: table_ and set_size_ when the thread took the lock
  rz,          \* history: table_ when the thread entered Resize
  abs,         \* history: the mathematical set the calls are compared with
  absret,      \* history: what the same call returned on abs
  wins,        \* history: per element, true Adds minus true Removes
  issued,      \* history (SpecAdds only): the elements whose Add was invoked
  cap0,        \* history: the initial_capacity the set was constructed with
  fails        \* history (SpecAlloc only): allocations that have failed

vars == <<table_, set_size_, mutex_, pc, op, elem, ret, size_ret, new_table,
          bi, ei, pre, rz, abs, absret, wins, issued, cap0, fails>>

shared == <<table_, set_size_>>
locals == <<new_table, bi, ei>>
hist == <<pre, rz, abs, absret, wins, issued, cap0, fails>>

\* ------------------------------------------------------ pure helpers

\* std::hash<T>()(elem) for T = int
Hash(e) == e

\* std::vector<std::vector<T>> v(n): n empty buckets
EmptyTable(n) == [i \in 1..n |-> <<>>]

\* Mutant: the index is taken modulo the capacity the set was built with.
BucketIndexStale(tbl, e) == (Hash(e) % cap0) + 1

\* std::hash<T>()(elem) % table_.size(), as a TLA+ index
BucketIndex(tbl, e) == (Hash(e) % Len(tbl)) + 1

\* Mutant: only the front of the bucket is compared.
InBucketFront(bucket, e) == Len(bucket) > 0 /\ bucket[1] = e

\* std::find(bucket.begin(), bucket.end(), elem) != bucket.end()
InBucket(bucket, e) == \E j \in DOMAIN bucket : bucket[j] = e

\* Contains_(elem): looks only in the bucket the hash selects
Contains_(tbl, e) == InBucket(tbl[BucketIndex(tbl, e)], e)

\* table_[bucket_index].push_back(elem)
PushBack(tbl, i, e) == [tbl EXCEPT ![i] = Append(@, e)]

\* Mutant: std::remove without the erase: the kept elements move to the
\* front and the tail keeps what it held.
RemoveNoErase(bucket, e) ==
  LET kept == SelectSeq(bucket, LAMBDA x : x # e)
  IN  kept \o SubSeq(bucket, Len(kept) + 1, Len(bucket))

\* std::remove(first, last, elem) followed by erase: every occurrence goes,
\* the rest keep their order
RemoveAll(bucket, e) == SelectSeq(bucket, LAMBDA x : x # e)

\* bucket.erase(std::remove(bucket.begin(), bucket.end(), elem), bucket.end())
Erase(tbl, i, e) == [tbl EXCEPT ![i] = RemoveAll(@, e)]

\* Mutant: the comparison is >= instead of >.
PolicyAtLeast(size, tbl) == (size \div Len(tbl)) >= bucket_capacity_

\* set_size_ / table_.size() > bucket_capacity_ (truncating division)
Policy(size, tbl) == (size \div Len(tbl)) > bucket_capacity_

\* size_t new_size = table_.size() * 2
NewSize(tbl) == Len(tbl) * 2

\* ---------------------------------------------------------- the state

NoPre == [table |-> <<>>, size |-> 0]

\* HashSetCoarseGrained(initial_capacity): set_size_(0), table_(initial_capacity)
New(initial_capacity) ==
  /\ table_ = EmptyTable(initial_capacity)
  /\ set_size_ = 0
  /\ mutex_ = 0
  /\ cap0 = initial_capacity

Quiet ==
  /\ pc = [t \in Threads |-> "Idle"]
  /\ op = [t \in Threads |-> "None"]
  /\ elem = [t \in Threads |-> 0]
  /\ ret = [t \in Threads |-> FALSE]
  /\ size_ret = [t \in Threads |-> 0]
  /\ new_table = [t \in Threads |-> <<>>]
  /\ bi = [t \in Threads |-> 0]
  /\ ei = [t \in Threads |-> 0]
  /\ pre = [t \in Threads |-> NoPre]
  /\ rz = [t \in Threads |-> <<>>]
  /\ abs = {}
  /\ absret = [t \in Threads |-> FALSE]
  /\ wins = [e \in Elems |-> 0]
  /\ issued = {}
  /\ fails = 0

Init == Quiet /\ \E c \in InitCaps : New(c)

\* ------------------------------------------------------------ calls
\* A statement that divides by table_.size() or new_table.size() is defined
\* only when that table has a bucket: its action carries the guard
\* Len(...) > 0, and ModZero below is what Contains_ does without one.

\* A caller enters Add, Remove or Contains and reaches the scoped_lock.
Invoke(t, o, e) ==
  /\ pc[t] = "Idle"
  /\ pc' = [pc EXCEPT ![t] = "Lock"]
  /\ op' = [op EXCEPT ![t] = o]
  /\ elem' = [elem EXCEPT ![t] = e]
  /\ UNCHANGED <<shared, mutex_, ret, size_ret, locals, pre, rz, abs, absret,
                 wins, cap0, fails>>

\* Any thread may call Add, Remove or Contains with any element.
Call(t) ==
  /\ \E o \in {"Add", "Remove", "Contains"} : \E e \in Elems : Invoke(t, o, e)
  /\ UNCHANGED issued

\* The first statement of a call, after the lock.
FirstPc(o) == IF o = "Add" THEN "AddCheck"
              ELSE IF o = "Remove" THEN "RemoveCheck" ELSE "ContainsCheck"

\* Mutant: the lock excludes nobody.
CanLockAlways(t) == TRUE

\* std::mutex::lock: succeeds only when no thread owns the mutex
CanLock(t) == mutex_ = 0

\* std::scoped_lock<std::mutex> lock(mutex_)
Lock(t) ==
  /\ pc[t] = "Lock"
  /\ CanLock(t)
  /\ mutex_' = t
  /\ pc' = [pc EXCEPT ![t] = FirstPc(op[t])]
  /\ pre' = [pre EXCEPT ![t] = [table |-> table_, size |-> set_size_]]
  /\ UNCHANGED <<shared, op, elem, ret, size_ret, locals, rz, abs, absret,
                 wins, issued, cap0, fails>>

\* The abstract set's Add and Remove, applied at the call's linearization point.
AbsAdd(S, e) == [set |-> S \cup {e}, ret |-> e \notin S]
AbsRemove(S, e) == [set |-> S \ {e}, ret |-> e \in S]

\* if (Contains_(elem)) { return false; }
AddCheck(t) ==
  /\ pc[t] = "AddCheck"
  /\ Len(table_) > 0
  /\ IF Contains_(table_, elem[t])
       THEN /\ pc' = [pc EXCEPT ![t] = "Unlock"]
            /\ ret' = [ret EXCEPT ![t] = FALSE]
            /\ abs' = AbsAdd(abs, elem[t]).set
            /\ absret' = [absret EXCEPT ![t] = AbsAdd(abs, elem[t]).ret]
       ELSE /\ pc' = [pc EXCEPT ![t] = "AddPush"]
            /\ UNCHANGED <<ret, abs, absret>>
  /\ UNCHANGED <<shared, mutex_, op, elem, size_ret, locals, pre, rz, wins,
                 issued, cap0, fails>>

\* size_t bucket_index = hash(elem) % table_.size();
\* table_[bucket_index].push_back(elem);
AddPush(t) ==
  /\ pc[t] = "AddPush"
  /\ Len(table_) > 0
  /\ table_' = PushBack(table_, BucketIndex(table_, elem[t]), elem[t])
  /\ pc' = [pc EXCEPT ![t] = "AddInc"]
  /\ UNCHANGED <<set_size_, mutex_, op, elem, ret, size_ret, locals, hist>>

\* set_size_.fetch_add(1)
AddInc(t) ==
  /\ pc[t] = "AddInc"
  /\ set_size_' = set_size_ + 1
  /\ pc' = [pc EXCEPT ![t] = "AddPolicy"]
  /\ abs' = AbsAdd(abs, elem[t]).set
  /\ absret' = [absret EXCEPT ![t] = AbsAdd(abs, elem[t]).ret]
  /\ UNCHANGED <<table_, mutex_, op, elem, ret, size_ret, locals, pre, rz,
                 wins, issued, cap0, fails>>

\* if (Policy()) { Resize(); }  return true;
AddPolicy(t) ==
  /\ pc[t] = "AddPolicy"
  /\ Len(table_) > 0
  /\ IF Policy(set_size_, table_)
       THEN /\ pc' = [pc EXCEPT ![t] = "ResizeAlloc"]
            /\ UNCHANGED ret
       ELSE /\ pc' = [pc EXCEPT ![t] = "Unlock"]
            /\ ret' = [ret EXCEPT ![t] = TRUE]
  /\ UNCHANGED <<shared, mutex_, op, elem, size_ret, locals, hist>>

\* std::vector<std::vector<T>> new_table(new_size)
ResizeAlloc(t) ==
  /\ pc[t] = "ResizeAlloc"
  /\ new_table' = [new_table EXCEPT ![t] = EmptyTable(NewSize(table_))]
  /\ bi' = [bi EXCEPT ![t] = 1]
  /\ ei' = [ei EXCEPT ![t] = 1]
  /\ rz' = [rz EXCEPT ![t] = table_]
  /\ pc' = [pc EXCEPT ![t] = "ResizeCopy"]
  /\ UNCHANGED <<shared, mutex_, op, elem, ret, size_ret, pre, abs, absret,
                 wins, issued, cap0, fails>>

\* Mutant: the new index is taken modulo table_.size(), the old capacity.
RehashOldSize(nt, e) == PushBack(nt, (Hash(e) % (Len(nt) \div 2)) + 1, e)

\* Mutant: the new bucket is assigned the element instead of growing by it.
RehashAssign(nt, e) == [nt EXCEPT ![BucketIndex(nt, e)] = <<e>>]

\* new_table[hash(elem) % new_table.size()].push_back(elem)
Rehash(nt, e) == PushBack(nt, BucketIndex(nt, e), e)

\* for (auto bucket : table_) for (T elem : bucket) { ... }: one step moves
\* to the next bucket, copies one element, or leaves the loops
ResizeCopy(t) ==
  /\ pc[t] = "ResizeCopy"
  /\ IF bi[t] > Len(table_)
       THEN /\ pc' = [pc EXCEPT ![t] = "ResizeClear"]
            /\ UNCHANGED locals
       ELSE IF ei[t] > Len(table_[bi[t]])
         THEN /\ bi' = [bi EXCEPT ![t] = @ + 1]
              /\ ei' = [ei EXCEPT ![t] = 1]
              /\ UNCHANGED <<pc, new_table>>
         ELSE /\ Len(new_table[t]) > 0
              /\ new_table' = [new_table EXCEPT
                                 ![t] = Rehash(@, table_[bi[t]][ei[t]])]
              /\ ei' = [ei EXCEPT ![t] = @ + 1]
              /\ UNCHANGED <<pc, bi>>
  /\ UNCHANGED <<shared, mutex_, op, elem, ret, size_ret, hist>>

\* table_.clear()
ResizeClear(t) ==
  /\ pc[t] = "ResizeClear"
  /\ table_' = <<>>
  /\ pc' = [pc EXCEPT ![t] = "ResizeAssign"]
  /\ UNCHANGED <<set_size_, mutex_, op, elem, ret, size_ret, locals, hist>>

\* Mutant: the assignment is missing, table_ stays cleared.
AssignedNothing(tbl, nt) == tbl

\* What table_ = new_table leaves in table_
Assigned(tbl, nt) == nt

\* table_ = new_table; Resize returns, and Add returns true
ResizeAssign(t) ==
  /\ pc[t] = "ResizeAssign"
  /\ table_' = Assigned(table_, new_table[t])
  /\ new_table' = [new_table EXCEPT ![t] = <<>>]
  /\ bi' = [bi EXCEPT ![t] = 0]
  /\ ei' = [ei EXCEPT ![t] = 0]
  /\ ret' = [ret EXCEPT ![t] = TRUE]
  /\ pc' = [pc EXCEPT ![t] = "Unlock"]
  /\ UNCHANGED <<set_size_, mutex_, op, elem, size_ret, hist>>

\* Not the code: a Remove without the early return, which erases and
\* decrements whether or not the element is stored.
RemoveUnchecked(t) ==
  /\ pc[t] = "RemoveCheck"
  /\ Len(table_) > 0
  /\ pc' = [pc EXCEPT ![t] = "RemoveErase"]
  /\ UNCHANGED <<shared, mutex_, op, elem, ret, size_ret, locals, hist>>

\* if (!Contains_(elem)) { return false; }
RemoveCheck(t) ==
  /\ pc[t] = "RemoveCheck"
  /\ Len(table_) > 0
  /\ IF ~Contains_(table_, elem[t])
       THEN /\ pc' = [pc EXCEPT ![t] = "Unlock"]
            /\ ret' = [ret EXCEPT ![t] = FALSE]
            /\ abs' = AbsRemove(abs, elem[t]).set
            /\ absret' = [absret EXCEPT ![t] = AbsRemove(abs, elem[t]).ret]
       ELSE /\ pc' = [pc EXCEPT ![t] = "RemoveErase"]
            /\ UNCHANGED <<ret, abs, absret>>
  /\ UNCHANGED <<shared, mutex_, op, elem, size_ret, locals, pre, rz, wins,
                 issued, cap0, fails>>

\* bucket.erase(std::remove(bucket.begin(), bucket.end(), elem), bucket.end())
RemoveErase(t) ==
  /\ pc[t] = "RemoveErase"
  /\ Len(table_) > 0
  /\ table_' = Erase(table_, BucketIndex(table_, elem[t]), elem[t])
  /\ pc' = [pc EXCEPT ![t] = "RemoveDec"]
  /\ UNCHANGED <<set_size_, mutex_, op, elem, ret, size_ret, locals, hist>>

\* set_size_.fetch_sub(1); return true;
\* set_size_ is a size_t: the model keeps the mathematical value, so a wrap
\* below zero would show as a negative counter.
RemoveDec(t) ==
  /\ pc[t] = "RemoveDec"
  /\ set_size_' = set_size_ - 1
  /\ ret' = [ret EXCEPT ![t] = TRUE]
  /\ pc' = [pc EXCEPT ![t] = "Unlock"]
  /\ abs' = AbsRemove(abs, elem[t]).set
  /\ absret' = [absret EXCEPT ![t] = AbsRemove(abs, elem[t]).ret]
  /\ UNCHANGED <<table_, mutex_, op, elem, size_ret, locals, pre, rz, wins,
                 issued, cap0, fails>>

\* return Contains_(elem);
ContainsCheck(t) ==
  /\ pc[t] = "ContainsCheck"
  /\ Len(table_) > 0
  /\ ret' = [ret EXCEPT ![t] = Contains_(table_, elem[t])]
  /\ absret' = [absret EXCEPT ![t] = elem[t] \in abs]
  /\ pc' = [pc EXCEPT ![t] = "Unlock"]
  /\ UNCHANGED <<shared, mutex_, op, elem, size_ret, locals, pre, rz, abs,
                 wins, issued, cap0, fails>>

\* The change of an element's count of true Adds less true Removes.
Won(o, r) == IF ~r THEN 0 ELSE IF o = "Add" THEN 1 ELSE IF o = "Remove" THEN -1 ELSE 0

\* Not the code: a lock that is released only by the calls that return true
\* (the early return false would leave the mutex locked).
UnlockIfChanged(t) ==
  /\ pc[t] = "Unlock"
  /\ mutex_' = IF ret[t] THEN 0 ELSE mutex_
  /\ pc' = [pc EXCEPT ![t] = "Idle"]
  /\ op' = [op EXCEPT ![t] = "None"]
  /\ elem' = [elem EXCEPT ![t] = 0]
  /\ ret' = [ret EXCEPT ![t] = FALSE]
  /\ absret' = [absret EXCEPT ![t] = FALSE]
  /\ pre' = [pre EXCEPT ![t] = NoPre]
  /\ rz' = [rz EXCEPT ![t] = <<>>]
  /\ wins' = [wins EXCEPT ![elem[t]] = @ + Won(op[t], ret[t])]
  /\ UNCHANGED <<shared, size_ret, locals, abs, issued, cap0, fails>>

\* ~scoped_lock releases the mutex and the call returns ret[t] to its caller
Unlock(t) ==
  /\ pc[t] = "Unlock"
  /\ mutex_' = 0
  /\ pc' = [pc EXCEPT ![t] = "Idle"]
  /\ op' = [op EXCEPT ![t] = "None"]
  /\ elem' = [elem EXCEPT ![t] = 0]
  /\ ret' = [ret EXCEPT ![t] = FALSE]
  /\ absret' = [absret EXCEPT ![t] = FALSE]
  /\ pre' = [pre EXCEPT ![t] = NoPre]
  /\ rz' = [rz EXCEPT ![t] = <<>>]
  /\ wins' = [wins EXCEPT ![elem[t]] = @ + Won(op[t], ret[t])]
  /\ UNCHANGED <<shared, size_ret, locals, abs, issued, cap0, fails>>

\* A caller enters Size(): no lock is taken
SizeInvoke(t) ==
  /\ pc[t] = "Idle"
  /\ pc' = [pc EXCEPT ![t] = "SizeLoad"]
  /\ op' = [op EXCEPT ![t] = "Size"]
  /\ UNCHANGED <<shared, mutex_, elem, ret, size_ret, locals, hist>>

\* Not the code: a Size() that reads the counter as the lock holder found it.
SizeLoadCommitted(t) ==
  /\ pc[t] = "SizeLoad"
  /\ size_ret' = [size_ret EXCEPT ![t] =
                    IF mutex_ = 0 THEN set_size_ ELSE pre[mutex_].size]
  /\ pc' = [pc EXCEPT ![t] = "SizeRet"]
  /\ UNCHANGED <<shared, mutex_, op, elem, ret, locals, hist>>

\* set_size_.load()
SizeLoad(t) ==
  /\ pc[t] = "SizeLoad"
  /\ size_ret' = [size_ret EXCEPT ![t] = set_size_]
  /\ pc' = [pc EXCEPT ![t] = "SizeRet"]
  /\ UNCHANGED <<shared, mutex_, op, elem, ret, locals, hist>>

\* Size() returns size_ret[t] to its caller
SizeReturn(t) ==
  /\ pc[t] = "SizeRet"
  /\ pc' = [pc EXCEPT ![t] = "Idle"]
  /\ op' = [op EXCEPT ![t] = "None"]
  /\ size_ret' = [size_ret EXCEPT ![t] = 0]
  /\ UNCHANGED <<shared, mutex_, elem, ret, locals, hist>>

\* Every statement of a call, once it was invoked.
Body(t) ==
  \/ Lock(t)
  \/ AddCheck(t)
  \/ AddPush(t)
  \/ AddInc(t)
  \/ AddPolicy(t)
  \/ ResizeAlloc(t)
  \/ ResizeCopy(t)
  \/ ResizeClear(t)
  \/ ResizeAssign(t)
  \/ RemoveCheck(t)
  \/ RemoveErase(t)
  \/ RemoveDec(t)
  \/ ContainsCheck(t)
  \/ Unlock(t)
  \/ SizeLoad(t)
  \/ SizeReturn(t)

Step(t) == Call(t) \/ SizeInvoke(t) \/ Body(t)

Next == \E t \in Threads : Step(t)

Spec == Init /\ [][Next]_vars

\* ------------------------------------------- one thread, sequential calls

\* Thread 1 is the only caller: the calls follow one another in program order.
Next1 == Step(1)

Spec1 == Init /\ [][Next1]_vars

\* ------------------------------- threads adding pairwise distinct elements

\* The elements thread t adds: no element belongs to two threads.
Own(t) == {e \in Elems : e % NThreads = t - 1}

\* Thread t calls Add with one of its own elements, each once.
AddOwn(t) ==
  \E e \in Own(t) \ issued :
    /\ Invoke(t, "Add", e)
    /\ issued' = issued \cup {e}

AddBody(t) ==
  \/ Lock(t)
  \/ AddCheck(t)
  \/ AddPush(t)
  \/ AddInc(t)
  \/ AddPolicy(t)
  \/ ResizeAlloc(t)
  \/ ResizeCopy(t)
  \/ ResizeClear(t)
  \/ ResizeAssign(t)
  \/ Unlock(t)

NextAdds == \E t \in Threads : AddOwn(t) \/ AddBody(t)

SpecAdds == Init /\ [][NextAdds]_vars

\* --------------------------------- construction with any initial_capacity

\* The constructor takes any size_t: table_(0) is a table without buckets.
InitCtor == Quiet /\ \E c \in 0..MaxInitCap : New(c)

\* Contains_ on a table without buckets: hash(elem) % table_.size() divides by
\* zero, which is undefined behaviour.  The thread is left at "UB" with an
\* arbitrary result and goes no further; nothing is known of it from there on.
ModZero(t) ==
  /\ pc[t] \in {"AddCheck", "RemoveCheck", "ContainsCheck"}
  /\ Len(table_) = 0
  /\ pc' = [pc EXCEPT ![t] = "UB"]
  /\ \E b \in BOOLEAN : ret' = [ret EXCEPT ![t] = b]
  /\ UNCHANGED <<shared, mutex_, op, elem, size_ret, locals, hist>>

NextCtor == \E t \in Threads : Step(t) \/ ModZero(t)

SpecCtor == InitCtor /\ [][NextCtor]_vars

\* ------------------------------------------------------ fair scheduling

\* Every thread that can take a step eventually takes one, and the mutex is
\* fair: a thread that finds it free again and again eventually locks it.
Fairness ==
  \A t \in Threads : WF_vars(Body(t)) /\ SF_vars(Lock(t))

SpecFair == Init /\ [][Next]_vars /\ Fairness

\* ------------------------------------ allocation failure inside Resize

\* An allocation may fail (std::bad_alloc) while fewer than MaxFail have.
CanFail == fails < MaxFail

\* new_table(new_size) throws: nothing was built, table_ was not touched
ResizeAllocFail(t) ==
  /\ pc[t] = "ResizeAlloc"
  /\ CanFail
  /\ fails' = fails + 1
  /\ rz' = [rz EXCEPT ![t] = table_]
  /\ pc' = [pc EXCEPT ![t] = "Throw"]
  /\ UNCHANGED <<shared, mutex_, op, elem, ret, size_ret, locals, pre, abs,
                 absret, wins, issued, cap0>>

\* The copy of a bucket (auto bucket) or new_table[...].push_back(elem)
\* throws inside the loops: the local new_table is destroyed, table_ was not
\* touched
ResizeCopyFail(t) ==
  /\ pc[t] = "ResizeCopy"
  /\ bi[t] <= Len(table_)
  /\ CanFail
  /\ fails' = fails + 1
  /\ new_table' = [new_table EXCEPT ![t] = <<>>]
  /\ bi' = [bi EXCEPT ![t] = 0]
  /\ ei' = [ei EXCEPT ![t] = 0]
  /\ pc' = [pc EXCEPT ![t] = "Throw"]
  /\ UNCHANGED <<shared, mutex_, op, elem, ret, size_ret, pre, rz, abs,
                 absret, wins, issued, cap0>>

\* What a copy assignment table_ = new_table that throws may leave in the
\* cleared table_: vector's copy assignment gives the basic guarantee, so
\* table_ holds the buckets copied so far, none in libstdc++ (it allocates
\* and copies before it touches table_).
PartlyAssigned(nt) == {SubSeq(nt, 1, k) : k \in 0..(Len(nt) - 1)}

\* table_ = new_table throws after table_.clear(): the old buckets are gone
ResizeAssignFail(t) ==
  /\ pc[t] = "ResizeAssign"
  /\ CanFail
  /\ fails' = fails + 1
  /\ \E left \in PartlyAssigned(new_table[t]) : table_' = left
  /\ new_table' = [new_table EXCEPT ![t] = <<>>]
  /\ bi' = [bi EXCEPT ![t] = 0]
  /\ ei' = [ei EXCEPT ![t] = 0]
  /\ pc' = [pc EXCEPT ![t] = "Throw"]
  /\ UNCHANGED <<set_size_, mutex_, op, elem, ret, size_ret, pre, rz, abs,
                 absret, wins, issued, cap0>>

\* The exception leaves Resize and Add: ~scoped_lock releases the mutex and
\* the caller receives std::bad_alloc instead of a result
Unwind(t) ==
  /\ pc[t] = "Throw"
  /\ mutex_' = 0
  /\ pc' = [pc EXCEPT ![t] = "Idle"]
  /\ op' = [op EXCEPT ![t] = "None"]
  /\ elem' = [elem EXCEPT ![t] = 0]
  /\ ret' = [ret EXCEPT ![t] = FALSE]
  /\ absret' = [absret EXCEPT ![t] = FALSE]
  /\ pre' = [pre EXCEPT ![t] = NoPre]
  /\ rz' = [rz EXCEPT ![t] = <<>>]
  /\ UNCHANGED <<shared, size_ret, locals, abs, wins, issued, cap0, fails>>

NextAlloc ==
  \E t \in Threads :
    \/ Step(t)
    \/ ResizeAllocFail(t)
    \/ ResizeCopyFail(t)
    \/ ResizeAssignFail(t)
    \/ Unwind(t)
    \/ ModZero(t)

SpecAlloc == Init /\ [][NextAlloc]_vars

\* ------------------------------------------------- what the claims read

\* The elements an exhaustive scan of all buckets finds.
Scan(tbl) == UNION {{tbl[i][j] : j \in DOMAIN tbl[i]} : i \in DOMAIN tbl}

\* The buckets (TLA+ indices) that hold e.
Where(tbl, e) == {i \in DOMAIN tbl : \E j \in DOMAIN tbl[i] : tbl[i][j] = e}

\* How many times e occurs in the table: the table as a multiset.
Occ(tbl, e) ==
  Cardinality({p \in UNION {{<<i, j>> : j \in DOMAIN tbl[i]} : i \in DOMAIN tbl} :
                 tbl[p[1]][p[2]] = e})

\* Thread t is about to return from a call made under the lock.
Returning(t, o) == pc[t] = "Unlock" /\ op[t] = o

\* C1: an Add of an element the set did not contain returns true, the element
\* is then in exactly the bucket hash(elem) mod capacity (the capacity after
\* any resize), the counter is one larger and every other element is kept.
C1_AddInserts ==
  \A t \in Threads :
    (Returning(t, "Add") /\ elem[t] \notin Scan(pre[t].table)) =>
      /\ ret[t] = TRUE
      /\ Where(table_, elem[t]) = {(Hash(elem[t]) % Len(table_)) + 1}
      /\ Occ(table_, elem[t]) = 1
      /\ set_size_ = pre[t].size + 1
      /\ Scan(pre[t].table) \subseteq Scan(table_)

\* An Add that inserted and resized is about to return.
C1_Witness ==
  \E t \in Threads :
    /\ Returning(t, "Add") /\ ret[t]
    /\ elem[t] \notin Scan(pre[t].table)
    /\ Len(table_) > Len(pre[t].table)
    /\ Where(table_, elem[t]) = {2}

\* C2: a Remove of an element the set contains returns true, the element is
\* then in no bucket, the counter is one smaller, every other element is
\* still in its bucket and the capacity is unchanged.
C2_RemoveDeletes ==
  \A t \in Threads :
    (Returning(t, "Remove") /\ elem[t] \in Scan(pre[t].table)) =>
      /\ ret[t] = TRUE
      /\ elem[t] \notin Scan(table_)
      /\ ~Contains_(table_, elem[t])
      /\ set_size_ = pre[t].size - 1
      /\ Len(table_) = Len(pre[t].table)
      /\ \A x \in Elems \ {elem[t]} :
           /\ Where(table_, x) = Where(pre[t].table, x)
           /\ Occ(table_, x) = Occ(pre[t].table, x)

\* A Remove took an element out of a bucket that holds others.
C2_Witness ==
  \E t \in Threads :
    /\ Returning(t, "Remove") /\ ret[t]
    /\ elem[t] \in Scan(pre[t].table)
    /\ set_size_ >= 2

\* What a call that reports no change must leave alone.
SameAsBefore(t) == table_ = pre[t].table /\ set_size_ = pre[t].size

\* The step is taken by thread t.
StepOf(t) == pc'[t] # pc[t]

\* C3: an Add of a present element and a Remove of an absent one return false
\* and leave buckets, counter and capacity as they were; no step of a
\* Contains or of a Size changes buckets, counter or capacity.
C3_NoChange ==
  /\ [](\A t \in Threads :
          /\ (Returning(t, "Add") /\ elem[t] \in Scan(pre[t].table)) =>
               (ret[t] = FALSE /\ SameAsBefore(t))
          /\ (Returning(t, "Remove") /\ elem[t] \notin Scan(pre[t].table)) =>
               (ret[t] = FALSE /\ SameAsBefore(t))
          /\ (Returning(t, "Add") /\ ret[t] = FALSE) => SameAsBefore(t)
          /\ (Returning(t, "Remove") /\ ret[t] = FALSE) => SameAsBefore(t))
  /\ [][\A t \in Threads :
          (StepOf(t) /\ op[t] \in {"Contains", "Size"}) =>
            (table_' = table_ /\ set_size_' = set_size_)]_vars

\* A second Add of an element returns false from a set that holds others too.
C3_Witness ==
  \E t \in Threads :
    /\ Returning(t, "Add") /\ ret[t] = FALSE
    /\ elem[t] \in Scan(pre[t].table)
    /\ set_size_ >= 2

\* C4: on one thread every call returns what the same call returns on a
\* mathematical set, and between calls Contains(x) is membership in that set
\* for every x and Size() is its cardinality.
C4_RefinesSet ==
  /\ pc[1] = "Unlock" => ret[1] = absret[1]
  /\ pc[1] = "SizeRet" => size_ret[1] = Cardinality(abs)
  /\ pc[1] = "Idle" =>
       /\ \A x \in Elems : Contains_(table_, x) = (x \in abs)
       /\ set_size_ = Cardinality(abs)

\* Between calls, after a resize and a later Remove.
C4_Witness ==
  /\ pc[1] = "Idle"
  /\ Len(table_) > cap0
  /\ Cardinality(abs) = 3

\* C5: the calls are linearizable: each call returns what the same call
\* returns on a mathematical set at one point between its invocation and its
\* return; for every element the Adds and Removes that return true alternate,
\* so of concurrent Adds of an absent element (Removes of a present one)
\* exactly one returns true.
C5_Linearizable ==
  /\ \A t \in Threads : pc[t] = "Unlock" => ret[t] = absret[t]
  /\ \A e \in Elems : wins[e] \in {0, 1}
  /\ mutex_ = 0 => \A e \in Elems : (wins[e] = 1) = (e \in abs)

\* Two threads Add the same absent element at once: one is returning false
\* after the other returned true.
C5_Witness ==
  \E t \in Threads : \E u \in Threads \ {t} :
    /\ Returning(t, "Add") /\ ret[t]
    /\ elem[t] \notin Scan(pre[t].table)
    /\ pc[u] = "Lock" /\ op[u] = "Add" /\ elem[u] = elem[t]

\* C6: threads Add pairwise distinct elements in any interleaving; once all
\* calls have returned the counter is the number of elements added and
\* Contains is true of each.
C6_NoLostUpdate ==
  (\A t \in Threads : pc[t] = "Idle") =>
    /\ set_size_ = Cardinality(issued)
    /\ Len(table_) > 0
    /\ \A e \in issued : Contains_(table_, e)

\* Every element was added, by several threads, and the table was resized.
C6_Witness ==
  /\ \A t \in Threads : pc[t] = "Idle"
  /\ issued = Elems
  /\ Len(table_) > cap0

\* The call of thread t is an Add of an absent element whose increment takes
\* floor(size / capacity) above the threshold.
Triggers(t) ==
  /\ op[t] = "Add"
  /\ elem[t] \notin Scan(pre[t].table)
  /\ ((pre[t].size + 1) \div Len(pre[t].table)) > 4

C8_CapacityMonotone ==
  /\ [](mutex_ = 0 => Len(table_) > 0)
  /\ [][/\ (mutex_ = 0 /\ mutex_' = 0) => Len(table_') >= Len(table_)
        /\ \A t \in Threads :
             (mutex_ = t /\ mutex_' = 0) =>
               (Len(table_') >= Len(pre[t].table) /\ Len(table_') >= cap0)]_vars

\* The set was resized and every element was removed again.
C8_Witness ==
  /\ mutex_ = 0
  /\ Len(table_) > cap0
  /\ Scan(table_) = {}
  /\ set_size_ = 0

\* C9: the table after a Resize holds the elements the table held when the
\* Resize started, each as often; all of them, the added one included, are
\* found by Contains.
C9_ResizeKeepsElements ==
  \A t \in Threads :
    (pc[t] = "Unlock" /\ rz[t] # <<>>) =>
      /\ \A e \in Elems : Occ(table_, e) = Occ(rz[t], e)
      /\ Len(table_) > 0
      /\ \A e \in Scan(rz[t]) : Contains_(table_, e)
      /\ Contains_(table_, elem[t])
      /\ Scan(pre[t].table) \cup {elem[t]} = Scan(table_)

\* An Add is about to return after its Resize moved elements to both buckets.
C9_Witness ==
  \E t \in Threads :
    /\ pc[t] = "Unlock" /\ rz[t] # <<>>
    /\ Len(table_) = 2 * Len(rz[t])
    /\ \A i \in DOMAIN table_ : Len(table_[i]) >= 2

\* C10: a set constructed with initial_capacity 0 is rejected, so that no Add,
\* Remove or Contains computes hash(elem) mod 0.
C10_ZeroCapacityRejected ==
  \A t \in Threads : pc[t] # "UB" /\ (mutex_ = t => cap0 > 0)

\* The number of elements stored in the buckets: the sum of their lengths.
Total(tbl) ==
  Cardinality(UNION {{<<i, j>> : j \in DOMAIN tbl[i]} : i \in DOMAIN tbl})

\* C11: a resize in which an allocation fails leaves the table the resize
\* started with, same capacity and same buckets, and the counter equal to the
\* number of stored elements.
C11_ResizeFailsAtomically ==
  \A t \in Threads :
    pc[t] = "Throw" => (table_ = rz[t] /\ set_size_ = Total(table_))

\* Thread t reads the counter in this step (the load of Size()).
Loads(t) == pc[t] = "SizeLoad" /\ pc'[t] = "SizeRet"

\* The change the lock holder h has made to the counter so far in its call:
\* +1 once an Add has passed fetch_add, -1 once a Remove has passed fetch_sub.
Counted(h) ==
  IF pc[h] \in {"AddPolicy", "ResizeAlloc", "ResizeCopy", "ResizeClear",
                "ResizeAssign"} \/ (pc[h] = "Unlock" /\ op[h] = "Add" /\ ret[h])
    THEN 1
    ELSE IF pc[h] = "Unlock" /\ op[h] = "Remove" /\ ret[h] THEN -1 ELSE 0

\* C12 (as stated): the value Size() reads is the number of elements when no
\* Add or Remove is running, and never reflects an Add or Remove that has not
\* returned: while a thread holds the lock it is the count that thread found.
C12_SizeOnlyCompleted ==
  [][\A t \in Threads :
       Loads(t) =>
         size_ret'[t] = IF mutex_ = 0 THEN Total(table_) ELSE pre[mutex_].size]_vars

\* C12 (amended): the value Size() reads is the number of elements when no
\* call holds the lock; while an Add or Remove holds it, the value is the
\* count that call found plus the change it has already made to the counter,
\* so it does reflect an Add that incremented and is still rehashing.
C12_SizeReadsCounter ==
  [][\A t \in Threads :
       Loads(t) =>
         size_ret'[t] = IF mutex_ = 0 THEN Total(table_)
                        ELSE pre[mutex_].size + Counted(mutex_)]_vars

\* Size() has read 5 while the fifth Add into one bucket is still rehashing.
C12_Witness ==
  \E t, u \in Threads :
    /\ pc[t] = "SizeRet" /\ pc[u] = "ResizeCopy"
    /\ Len(table_) = 1 /\ pre[u].size = 4
    /\ size_ret[t] = 5

\* Thread t is inside the body of Add, Remove or Contains (Resize included).
InBody(t) ==
  pc[t] \in {"AddCheck", "AddPush", "AddInc", "AddPolicy", "ResizeAlloc",
             "ResizeCopy", "ResizeClear", "ResizeAssign", "RemoveCheck",
             "RemoveErase", "RemoveDec", "ContainsCheck", "Unlock"}

\* Thread t is inside Resize.
InResize(t) ==
  pc[t] \in {"ResizeAlloc", "ResizeCopy", "ResizeClear", "ResizeAssign"}

\* C13: at most one thread is inside the body of Add, Remove or Contains, and
\* it is the lock holder; while a thread is inside Resize no other thread is
\* in a body; every step that writes the bucket array or the size counter is a
\* step of the thread that holds the lock.
C13_MutualExclusion ==
  /\ [](\A t, u \in Threads : (InBody(t) /\ InBody(u)) => t = u)
  /\ [](\A t \in Threads : InBody(t) => mutex_ = t)
  /\ [](\A t, u \in Threads : (InResize(t) /\ u # t) => ~InBody(u))
  /\ [][(table_' # table_ \/ set_size_' # set_size_) =>
          /\ mutex_ # 0
          /\ InBody(mutex_)
          /\ StepOf(mutex_)
          /\ \A u \in Threads \ {mutex_} : pc'[u] = pc[u]]_vars

\* A thread is rehashing while the other waits for the lock.
C13_Witness ==
  \E t, u \in Threads :
    /\ pc[t] = "ResizeCopy" /\ bi[t] = 1 /\ ei[t] = 3
    /\ mutex_ = t
    /\ pc[u] = "Lock"

\* Every element of tbl is in the bucket hash(elem) mod capacity.
Placed(tbl) ==
  \A i \in DOMAIN tbl : \A j \in DOMAIN tbl[i] :
    (Hash(tbl[i][j]) % Len(tbl)) + 1 = i

\* C14: whenever the lock is free, when it is acquired and when it is
\* released, every element in bucket i has hash mod capacity = i; a resize
\* has restored this for the new capacity before the lock is released.
C14_Placement ==
  /\ mutex_ = 0 => Placed(table_)
  /\ \A t \in Threads :
       /\ pc[t] \in {"AddCheck", "RemoveCheck", "ContainsCheck"} =>
            Placed(table_)
       /\ pc[t] = "Unlock" => Placed(table_)
       /\ mutex_ = t => Placed(pre[t].table)

\* An Add that resized is about to release the lock; both new buckets hold
\* elements.
C14_Witness ==
  \E t \in Threads :
    /\ pc[t] = "Unlock" /\ op[t] = "Add"
    /\ Len(table_) = 2 * Len(pre[t].table)
    /\ table_[1] # <<>> /\ table_[2] # <<>>

\* C15: no element occurs more than once in the table, in any reachable
\* state: not in one bucket and not across buckets, and not in the table a
\* resize is building.
C15_NoDuplicates ==
  \A e \in Elems :
    /\ Occ(table_, e) <= 1
    /\ \A t \in Threads : Occ(new_table[t], e) <= 1

\* An Add of an element that is already stored, and not at the front of its
\* bucket, is about to return false; the table was resized before.
C15_Witness ==
  \E t \in Threads :
    /\ pc[t] = "Unlock" /\ op[t] = "Add" /\ ~ret[t]
    /\ Len(table_) > cap0
    /\ \E i \in DOMAIN table_ : \E j \in DOMAIN table_[i] :
         j > 1 /\ table_[i][j] = elem[t]

\* C16 (as stated): the size counter equals the sum of the bucket lengths at
\* all times, while the lock is held (between push and increment, between
\* erase and decrement, during Resize) as well as while it is free.
C16_CounterAlwaysExact == set_size_ = Total(table_)

\* C16 (amended): the counter equals the sum of the bucket lengths whenever
\* the lock is free, when it is acquired and when it is released; under the
\* lock it is one less between push_back and fetch_add, one more between
\* erase and fetch_sub, and between clear() and the assignment in Resize the
\* table holds nothing while the counter counts the elements of new_table.
C16_CounterExactOutside ==
  /\ mutex_ = 0 => set_size_ = Total(table_)
  /\ \A t \in Threads :
       /\ pc[t] \in {"AddCheck", "AddPush", "RemoveCheck", "RemoveErase",
                     "ContainsCheck", "AddPolicy", "ResizeAlloc", "ResizeCopy",
                     "ResizeClear", "Unlock"} => set_size_ = Total(table_)
       /\ pc[t] = "AddInc" => set_size_ = Total(table_) - 1
       /\ pc[t] = "RemoveDec" => set_size_ = Total(table_) + 1
       /\ pc[t] = "ResizeAssign" =>
            Total(table_) = 0 /\ set_size_ = Total(new_table[t])

\* An Add has pushed its element into a table that held three and has not yet
\* incremented the counter.
C16_Witness ==
  \E t \in Threads :
    /\ pc[t] = "AddInc"
    /\ Total(table_) = 4 /\ set_size_ = 3

\* C17: the lock is released on every exit path (a thread that is not in a
\* body does not hold it, and the holder can always take its next step, so
\* nothing deadlocks); Size() never waits; under fair scheduling with a fair
\* lock every invoked Add, Remove, Contains and Size eventually returns.
C17_Terminates ==
  /\ [](\A t \in Threads : (mutex_ = t) = InBody(t))
  /\ [](\A t \in Threads : InBody(t) => ENABLED Body(t))
  /\ [](\A t \in Threads :
          pc[t] \in {"SizeLoad", "SizeRet"} => ENABLED Body(t))
  /\ \A t \in Threads : (pc[t] # "Idle") ~> (pc[t] = "Idle")

\* A thread waits for the lock while the other is about to return false from
\* Remove, and a call has already resized the table.
C17_Witness ==
  \E t, u \in Threads :
    /\ pc[t] = "Lock"
    /\ pc[u] = "Unlock" /\ op[u] = "Remove" /\ ~ret[u]
    /\ Len(table_) > cap0

\* C18: whenever the lock is free, floor(size / capacity) <= 4, that is
\* size < 5 * capacity, and no Remove breaks this; a resize starts exactly
\* when the counter is 5 times the old capacity, and when it has installed
\* the new table floor(size / capacity) = 2, so the policy does not hold again
\* within the same Add.
C18_LoadBound ==
  /\ mutex_ = 0 =>
       /\ set_size_ \div Len(table_) <= bucket_capacity_
       /\ set_size_ < (bucket_capacity_ + 1) * Len(table_)
  /\ \A t \in Threads :
       /\ (pc[t] = "Unlock" /\ op[t] = "Remove") =>
            set_size_ < (bucket_capacity_ + 1) * Len(table_)
       /\ pc[t] = "ResizeAlloc" =>
            set_size_ = (bucket_capacity_ + 1) * Len(table_)
       /\ pc[t] = "AddPolicy" =>
            set_size_ <= (bucket_capacity_ + 1) * Len(table_)
       /\ (pc[t] = "Unlock" /\ op[t] = "Add") =>
            set_size_ < (bucket_capacity_ + 1) * Len(table_)
       /\ (pc[t] = "Unlock" /\ Len(table_) # Len(pre[t].table)) =>
            /\ set_size_ \div Len(table_) = 2
            /\ Len(table_) = 2 * Len(pre[t].table)

\* The fifth Add into a set of one bucket has resized to two buckets and is
\* about to return.
C18_Witness ==
  \E t \in Threads :
    /\ pc[t] = "Unlock" /\ op[t] = "Add" /\ ret[t]
    /\ Len(pre[t].table) = 1 /\ Len(table_) = 2
    /\ set_size_ = 5

\* The number of distinct elements stored in tbl.
Count(tbl) == Cardinality(Scan(tbl))

\* The count after the call of lock holder h, given the table it found: one
\* more for an Add of an absent element, one less for a Remove of a stored
\* one, the same otherwise.
CountAfter(h) ==
  IF op[h] = "Add" /\ elem[h] \notin Scan(pre[h].table)
    THEN Count(pre[h].table) + 1
    ELSE IF op[h] = "Remove" /\ elem[h] \in Scan(pre[h].table)
           THEN Count(pre[h].table) - 1
           ELSE Count(pre[h].table)

\* C19: every value Size() reads is the number of elements just before or
\* just after the one Add or Remove in flight at that moment (the exact number
\* when none is), so it is never more than one away from the linearized set;
\* the unsigned counter never goes below zero.
C19_SizeWithinOne ==
  /\ [][\A t \in Threads :
          Loads(t) =>
            /\ mutex_ = 0 => size_ret'[t] = Count(table_)
            /\ mutex_ # 0 =>
                 size_ret'[t] \in {Count(pre[mutex_].table), CountAfter(mutex_)}
            /\ size_ret'[t] - Cardinality(abs) \in {-1, 0, 1}]_vars
  /\ [](set_size_ >= 0)
  /\ [](\A t \in Threads : size_ret[t] >= 0)

\* Size() has read 2, the count before, while a Remove that has erased one of
\* the two elements has not yet decremented the counter.
C19_Witness ==
  \E t, u \in Threads :
    /\ pc[t] = "SizeRet" /\ size_ret[t] = 2
    /\ pc[u] = "RemoveDec" /\ pre[u].size = 2
    /\ Count(table_) = 1

====
